---- MODULE Spec2Model ----
(***************************************************************************)
(* L'Osteria AI Receptionist v2.  src/main.py: the per-call session        *)
(* pipeline; one asyncio task per websocket connection                     *)
(* (websocket_media_handler), one per POST /api/chat request               *)
(* (chat_with_gpt4o), the process-wide registry active_sessions and the    *)
(* process-wide menu_cache.  A task's pc is the await it is suspended at.  *)
(* src/audio_converter.py: TwilioAudioConverter, the chunk buffer that     *)
(* turns Twilio's mu-law chunks into WAV clips.                            *)
(***************************************************************************)
EXTENDS Integers, Sequences, FiniteSets, TLC

\* ------------------------------------------------------------ the universe
Handlers == {"h1", "h2"}          \* websocket connections (one task each)
Chats == {"r1", "r2"}             \* POST /api/chat requests (one task each)
Tasks == Handlers \cup Chats
CallIds == {"CA1", "CA2"}         \* call_sid path parameters / session_id form fields
None == "None"

\* The caller sends audio to a session in task flow only while its history is
\* shorter than 2 * MaxTurns entries.
MaxTurns == 1

\* datetime arithmetic, in seconds
SecondsPerDay == 86400
StaleAfter == 3600
NoTime == -1
Instants == {0, 3600, 3601, 90000}

\* process_audio_chunk's threshold and the chunk sizes the caller sends
BufferThreshold == 16000
ChunkSizes == {16000}

NoMsg == [event |-> "none", payload |-> 0]
\* What websocket.receive_text() can produce.  payload: the decoded byte count,
\* 0 for a missing or empty payload, -1 for one base64.b64decode rejects.
Messages ==
    {[event |-> e, payload |-> 0] :
        e \in {"connected", "start", "stop", "other", "<invalid json>", "<disconnect>"}}
    \cup {[event |-> "media", payload |-> n] : n \in ChunkSizes \cup {0, -1}}

NoReply == <<"none", "none">>

\* ------------------------------------------------------------ str
\* A str is the sequence of its characters.
NoText == << >>

UpperCase == <<"A", "B", "C", "D", "E", "F", "G", "H", "I", "J", "K", "L", "M",
               "N", "O", "P", "Q", "R", "S", "T", "U", "V", "W", "X", "Y", "Z">>
LowerCase == <<"a", "b", "c", "d", "e", "f", "g", "h", "i", "j", "k", "l", "m",
               "n", "o", "p", "q", "r", "s", "t", "u", "v", "w", "x", "y", "z">>

LowerMap ==
    [c \in {UpperCase[i] : i \in DOMAIN UpperCase} |->
        LowerCase[CHOOSE i \in DOMAIN UpperCase : UpperCase[i] = c]]

LowerChar(c) == IF c \in DOMAIN LowerMap THEN LowerMap[c] ELSE c

\* str.lower()
Lower(s) == [i \in 1..Len(s) |-> LowerChar(s[i])]

\* the `in` operator on two str
Contains(sub, s) ==
    \E i \in 0..(Len(s) - Len(sub)) :
        \A j \in 1..Len(sub) : s[i + j] = sub[j]

\* str.strip() leaves nothing
Whitespace == {" ", "\t", "\n"}
IsBlank(s) == \A i \in 1..Len(s) : s[i] \in Whitespace

\* what the caller says, as Whisper returns it
TestInput == <<"t", "e", "s", "t", " ", "i", "n", "p", "u", "t">>
Sport == <<"S", "p", "o", "r", "t">>
Space == <<" ">>
One == <<"1">>
Two == <<"2">>
Three == <<"3">>
Four == <<"4">>
OneTwo == <<"1", "2">>
Nederlands == <<"N", "e", "d", "e", "r", "l", "a", "n", "d", "s">>
Deux == <<"D", "E", "U", "X">>
Quatre == <<"q", "u", "a", "t", "r", "e">>

\* what the completion answers
Prima == <<"P", "r", "i", "m", "a">>
Transfer == <<"T", "r", "a", "n", "s", "f", "e", "r">>
NeSaisPas == <<"J", "e", " ", "n", "e", " ", "s", "a", "i", "s", " ", "p", "a", "s">>
WeetNiet == <<"W", "e", "e", "t", " ", "n", "i", "e", "t">>

\* the outcome of a request for text: the text, or an exception
Text(s) == [ok |-> TRUE, text |-> s]
Raised == [ok |-> FALSE, text |-> NoText]

\* the keyword lists of _handle_language_selection
language_keywords ==
    [nl |-> {<<"e", "e", "n">>,
             <<"n", "e", "d", "e", "r", "l", "a", "n", "d", "s">>},
     fr |-> {<<"d", "e", "u", "x">>,
             <<"f", "r", "a", "n", "ç", "a", "i", "s">>},
     it |-> {<<"t", "r", "e">>,
             <<"i", "t", "a", "l", "i", "a", "n", "o">>},
     en |-> {<<"f", "o", "u", "r">>,
             <<"e", "n", "g", "l", "i", "s", "h">>}]
language_digit == [nl |-> One, fr |-> Two, it |-> Three, en |-> Four]
Languages == <<"nl", "fr", "it", "en">>

\* off_topic_keywords of _handle_takeaway_flow
off_topic_keywords ==
    {<<"w", "e", "a", "t", "h", "e", "r">>,
     <<"p", "o", "l", "i", "t", "i", "c", "s">>,
     <<"s", "p", "o", "r", "t", "s">>,
     <<"p", "e", "r", "s", "o", "n", "a", "l">>,
     <<"m", "e", "t", "e", "o">>,
     <<"p", "o", "l", "i", "t", "i", "e", "k">>,
     <<"s", "p", "o", "r", "t">>,
     <<"p", "e", "r", "s", "o", "o", "n", "l", "i", "j", "k">>}

\* transfer_phrases of _handle_takeaway_flow
transfer_phrases ==
    {<<"c", "o", "l", "l", "e", "g", "o", " ", "a", "l", " ",
       "r", "i", "s", "t", "o", "r", "a", "n", "t", "e">>,
     <<"t", "r", "a", "n", "s", "f", "e", "r">>,
     <<"d", "o", "n", "'", "t", " ", "h", "a", "v", "e">>,
     <<"n", "i", "e", "t", " ", "w", "e", "t", "e", "n">>,
     <<"n", "e", " ", "s", "a", "i", "s", " ", "p", "a", "s">>}

\* ------------------------------------------------------------ bytes
\* A bytes object is the sequence of its runs <<byte value, count>>, adjacent
\* runs having different values and every count being positive.
Cat(a, b) ==
    IF a = << >> THEN b
    ELSE IF b = << >> THEN a
    ELSE IF a[Len(a)][1] = b[1][1]
    THEN SubSeq(a, 1, Len(a) - 1)
            \o << <<b[1][1], a[Len(a)][2] + b[1][2]>> >> \o Tail(b)
    ELSE a \o b

\* b''.join(chunks)
RECURSIVE Join(_)
Join(chunks) == IF chunks = << >> THEN << >> ELSE Cat(Head(chunks), Join(Tail(chunks)))

\* len(b)
RECURSIVE BytesLen(_)
BytesLen(b) == IF b = << >> THEN 0 ELSE b[1][2] + BytesLen(Tail(b))

\* audioop's mu-law decoding table, for the byte values the peer sends here
st_ulaw2linear16 == [v \in {0, 127, 128, 255} |->
    CASE v = 0 -> -32124 [] v = 127 -> 0 [] v = 128 -> 32124 [] v = 255 -> 0]

\* audioop.ulaw2lin(b, 2): one 16-bit sample per byte, as runs <<sample, count>>
RECURSIVE ulaw2lin(_)
ulaw2lin(b) ==
    IF b = << >> THEN << >>
    ELSE Cat(<< <<st_ulaw2linear16[b[1][1]], b[1][2]>> >>, ulaw2lin(Tail(b)))

\* the chunks a peer sends, and the base64 payloads that carry them
MaxChunks == 3
MulawChunks ==
    {<< >>, << <<255, 1>> >>, << <<0, 7999>> >>, << <<255, 8000>> >>,
     << <<127, 1>>, <<128, 1>> >>}
Payloads ==
    {[padded |-> TRUE, data |-> c] : c \in MulawChunks}
        \cup {[padded |-> FALSE, data |-> << >>]}

\* base64.b64decode: the bytes, or binascii.Error on incorrect padding
b64decode(p) == IF p.padded THEN [ok |-> TRUE, data |-> p.data]
                ELSE [ok |-> FALSE, data |-> << >>]

\* TwilioAudioConverter.__init__
sample_rate == 8000
min_duration_ms == 1000

VARIABLES
    active_sessions,        \* CallIds -> the session object registered, or None
    call_state,             \* per session object (named by the task that created it)
    language,
    selected_language,
    selected_option,
    conversation_history,
    audio_buffer,           \* len(self.audio_buffer)
    transfers,              \* invocations of initiate_transfer on the object
    pc,                     \* per task: the await it is suspended at
    sid,                    \* per task: call_sid / session_id
    sess,                   \* per task: the session object it holds
    inbox,                  \* per handler: the message receive_text has ready
    ctx,                    \* per handler: which event the running turn belongs to
    user_message,           \* per task: the turn's user text
    response,               \* per task: the completion's text in _handle_takeaway_flow
    reply,                  \* per task: the turn's reply <<kind, language>>
    calls,                  \* per task: external requests issued in the running turn
    request,                \* per task: the messages of the completion request in flight
    outbox,                 \* per task: the frames websocket.send_text was given in the running turn
    openai_client,          \* TRUE iff AsyncOpenAI was constructed
    twilio_client,          \* TRUE iff twilio Client was constructed
    menu_data,              \* menu_cache["data"]
    menu_last_updated,      \* menu_cache["last_updated"]
    now,                    \* datetime.now()
    converter_buffer,       \* TwilioAudioConverter.audio_buffer
    converter_result,       \* the converter's last call: <<method, None, "bytes" or the exception>>
    converter_added,        \* every chunk add_audio_chunk appended, in order
    converter_clips         \* every WAV convert_to_wav returned, in order

dialogVars == <<call_state, language, selected_language, selected_option, transfers>>
sessionVars == <<call_state, language, selected_language, selected_option,
                 conversation_history, audio_buffer, transfers>>
taskVars == <<pc, sid, sess, inbox, ctx, user_message, response, reply, calls,
              request, outbox>>
menuVars == <<menu_data, menu_last_updated>>
clientVars == <<openai_client, twilio_client>>
converterVars == <<converter_buffer, converter_result, converter_added, converter_clips>>
pipelineVars == <<active_sessions, sessionVars, taskVars, menuVars, clientVars, now>>
vars == <<pipelineVars, converterVars>>

\* ------------------------------------------------------------ construction
\* the number of history entries a completion request carries
HistoryWindow == 6

\* a constructor that starts the dialog at the welcome menu, with no language
CallSession_at_welcome ==
    [call_state |-> "welcome", language |-> "en", selected_language |-> "en",
     selected_option |-> "none", conversation_history |-> << >>,
     audio_buffer |-> 0]

\* CallSession.__init__
CallSession ==
    [call_state |-> "takeaway", language |-> "nl", selected_language |-> "nl",
     selected_option |-> "takeaway", conversation_history |-> << >>,
     audio_buffer |-> 0]

NoCalls == [stt |-> 0, gen |-> 0, tts |-> 0, send |-> 0]
NoRequest == << >>

\* TwilioAudioConverter()
InitConverter ==
    /\ converter_buffer = << >>
    /\ converter_result = <<"__init__", None>>
    /\ converter_added = << >>
    /\ converter_clips = << >>

\* the process after startup_event, with no connection yet
InitProcess ==
    /\ active_sessions = [c \in CallIds |-> None]
    /\ audio_buffer = [o \in Tasks |-> CallSession.audio_buffer]
    /\ transfers = [o \in Tasks |-> 0]
    /\ pc = [t \in Tasks |-> "idle"]
    /\ sid = [t \in Tasks |-> None]
    /\ sess = [t \in Tasks |-> None]
    /\ inbox = [h \in Handlers |-> NoMsg]
    /\ ctx = [h \in Handlers |-> "none"]
    /\ user_message = [t \in Tasks |-> NoText]
    /\ response = [t \in Tasks |-> NoText]
    /\ reply = [t \in Tasks |-> NoReply]
    /\ calls = [t \in Tasks |-> NoCalls]
    /\ outbox = [t \in Tasks |-> << >>]
    /\ request = [t \in Tasks |-> NoRequest]
    /\ openai_client \in BOOLEAN
    /\ twilio_client \in BOOLEAN
    /\ now = 0
    \* startup_event awaits fetch_restaurant_menu once: it succeeded or it failed
    /\ \/ menu_data = "menu" /\ menu_last_updated = 0
       \/ menu_data = None /\ menu_last_updated = NoTime

Init ==
    /\ InitProcess
    /\ call_state = [o \in Tasks |-> CallSession.call_state]
    /\ language = [o \in Tasks |-> CallSession.language]
    /\ selected_language = [o \in Tasks |-> CallSession.selected_language]
    /\ selected_option = [o \in Tasks |-> CallSession.selected_option]
    /\ conversation_history = [o \in Tasks |-> CallSession.conversation_history]
    /\ InitConverter

\* ------------------------------------------------------------ helpers
\* twilio_client.calls(...).update(...) is a synchronous call made on the event
\* loop's thread: while a task is inside it no other task is resumed.
LoopBlocked == \E t \in Tasks : pc[t] = "xfer"

\* timedelta.seconds: the seconds field of the normalised (days, seconds) pair
TimedeltaSeconds(a, b) == (a - b) % SecondsPerDay

\* the staleness test of generate_ai_response and chat_with_gpt4o
NeedsRefresh ==
    \/ menu_data = None
    \/ menu_last_updated = NoTime
    \/ TimedeltaSeconds(now, menu_last_updated) > StaleAfter

\* `return response` of the reply-producing coroutine, entered with the user
\* text msg: the media-stream task goes on to speak_response (suspends at the
\* TTS request), the chat task returns.
Return(t, msg, r) ==
    /\ reply' = [reply EXCEPT ![t] = r]
    /\ user_message' = [user_message EXCEPT ![t] = msg]
    /\ pc' = [pc EXCEPT ![t] = IF t \in Handlers THEN "tts" ELSE "done"]
    /\ calls' = [calls EXCEPT ![t].tts = IF t \in Handlers THEN @ + 1 ELSE @]
    /\ request' = [request EXCEPT ![t] = NoRequest]
    /\ UNCHANGED outbox

\* the coroutine suspends at an await with the turn's user text msg
Await(t, p, msg) ==
    /\ pc' = [pc EXCEPT ![t] = p]
    /\ user_message' = [user_message EXCEPT ![t] = msg]
    /\ calls' = IF p \in DOMAIN NoCalls THEN [calls EXCEPT ![t][p] = @ + 1] ELSE calls
    /\ request' = [request EXCEPT ![t] = NoRequest]
    /\ UNCHANGED outbox
    /\ UNCHANGED reply

\* a view of the history that starts at its first entry
first_turns(history) == SubSeq(history, 1, IF Len(history) < HistoryWindow
                                           THEN Len(history) ELSE HistoryWindow)

\* self.conversation_history[-6:]
last_turns(history) ==
    SubSeq(history, IF Len(history) > HistoryWindow
                    THEN Len(history) - HistoryWindow + 1 ELSE 1, Len(history))

\* the messages list of _handle_takeaway_flow: the system prompt, the last
\* entries of the history, the user's turn
build_messages(t, o) ==
    << <<"system", "prompt">> >> \o last_turns(conversation_history[o])
        \o << <<"user", t>> >>

\* await openai_client.chat.completions.create(messages=messages, ...)
request_completion(t, o, msg) ==
    /\ pc' = [pc EXCEPT ![t] = "gen"]
    /\ user_message' = [user_message EXCEPT ![t] = msg]
    /\ calls' = [calls EXCEPT ![t].gen = @ + 1]
    /\ request' = [request EXCEPT ![t] = build_messages(t, o)]
    /\ UNCHANGED <<reply, outbox>>

\* an update that records the reply before the input
AppendTurn_reply_first(t, o) ==
    [conversation_history EXCEPT
        ![o] = Append(Append(@, <<"assistant", t>>), <<"user", t>>)]

\* conversation_history.append(user turn); conversation_history.append(reply):
\* no await between the two
AppendTurn(t, o) ==
    [conversation_history EXCEPT
        ![o] = Append(Append(@, <<"user", t>>), <<"assistant", t>>)]

\* the else branch of the if/elif chains on selected_language
Localized(l) == IF l \in {"nl", "fr", "it"} THEN l ELSE "en"

\* ------------------------------------------------------------ the dialog
\* a keyword test that compares the text as it was said
off_topic_case_sensitive(msg) == \E k \in off_topic_keywords : Contains(k, msg)

\* any(keyword in user_message.lower() for keyword in off_topic_keywords)
off_topic(msg) == \E k \in off_topic_keywords : Contains(k, Lower(msg))

\* a phrase test that compares the reply as it was written
wants_transfer_case_sensitive(text) == \E p \in transfer_phrases : Contains(p, text)

\* any(phrase in response.lower() for phrase in transfer_phrases)
wants_transfer(text) == \E p \in transfer_phrases : Contains(p, Lower(text))

\* one condition of the if/elif chain of _handle_language_selection
says(msg, l) ==
    \/ Contains(language_digit[l], msg)
    \/ \E k \in language_keywords[l] : Contains(k, Lower(msg))

\* a chain in which a later branch overrides an earlier one
language_choice_last_match(msg) ==
    IF \E i \in DOMAIN Languages : says(msg, Languages[i])
    THEN Languages[CHOOSE i \in DOMAIN Languages :
            /\ says(msg, Languages[i])
            /\ \A j \in (i + 1)..Len(Languages) : ~says(msg, Languages[j])]
    ELSE None

\* the first branch of the chain that matches, or None
language_choice(msg) ==
    IF \E i \in DOMAIN Languages : says(msg, Languages[i])
    THEN Languages[CHOOSE i \in DOMAIN Languages :
            /\ says(msg, Languages[i])
            /\ \A j \in 1..(i - 1) : ~says(msg, Languages[j])]
    ELSE None

\* _get_takeaway_greeting
get_takeaway_greeting(o) == <<"takeaway_greeting", Localized(selected_language[o])>>

\* _get_transfer_message
get_transfer_message(o) == <<"transfer_msg", Localized(selected_language[o])>>

\* _handle_welcome_state
handle_welcome_state(t, o, msg) ==
    /\ call_state' = [call_state EXCEPT ![o] = "language_select"]
    /\ Return(t, msg, <<"language_menu", "all">>)
    /\ UNCHANGED <<language, selected_language, selected_option, transfers>>

\* a language selection that records the choice in selected_language only
handle_language_selection_keeps_language(t, o, msg) ==
    LET l == language_choice(msg)
    IN  IF l # None
        THEN /\ selected_language' = [selected_language EXCEPT ![o] = l]
             /\ call_state' = [call_state EXCEPT ![o] = "menu_select"]
             /\ Return(t, msg, <<"option_menu", l>>)
             /\ UNCHANGED <<language, selected_option, transfers>>
        ELSE /\ Return(t, msg, <<"language_prompt", "en">>)
             /\ UNCHANGED dialogVars

\* a language selection that changes the transcription hint only
handle_language_selection_hint_only(t, o, msg) ==
    LET l == language_choice(msg)
    IN  IF l # None
        THEN /\ language' = [language EXCEPT ![o] = l]
             /\ call_state' = [call_state EXCEPT ![o] = "menu_select"]
             /\ Return(t, msg, <<"option_menu", l>>)
             /\ UNCHANGED <<selected_language, selected_option, transfers>>
        ELSE /\ Return(t, msg, <<"language_prompt", "en">>)
             /\ UNCHANGED dialogVars

\* _handle_language_selection
handle_language_selection(t, o, msg) ==
    LET l == language_choice(msg)
    IN  IF l # None
        THEN /\ selected_language' = [selected_language EXCEPT ![o] = l]
             /\ language' = [language EXCEPT ![o] = l]
             /\ call_state' = [call_state EXCEPT ![o] = "menu_select"]
             /\ Return(t, msg, <<"option_menu", l>>)
             /\ UNCHANGED <<selected_option, transfers>>
        ELSE /\ Return(t, msg, <<"language_prompt", "en">>)
             /\ UNCHANGED dialogVars

\* a menu selection that tests for "2" and "3" before "1"
handle_menu_selection_transfer_first(t, o, msg) ==
    IF Contains(Two, msg) \/ Contains(Three, msg)
    THEN /\ selected_option' = [selected_option EXCEPT ![o] = "transfer"]
         /\ call_state' = [call_state EXCEPT ![o] = "transfer"]
         /\ transfers' = [transfers EXCEPT ![o] = @ + 1]
         /\ IF twilio_client
            THEN Await(t, "xfer", msg)
            ELSE Return(t, msg, get_transfer_message(o))
         /\ UNCHANGED <<language, selected_language>>
    ELSE IF Contains(One, msg)
    THEN /\ selected_option' = [selected_option EXCEPT ![o] = "takeaway"]
         /\ call_state' = [call_state EXCEPT ![o] = "takeaway"]
         /\ Return(t, msg, get_takeaway_greeting(o))
         /\ UNCHANGED <<language, selected_language, transfers>>
    ELSE /\ Return(t, msg, <<"option_prompt", Localized(selected_language[o])>>)
         /\ UNCHANGED dialogVars

\* a menu selection whose transfer branch only changes the phase
handle_menu_selection_no_transfer_call(t, o, msg) ==
    IF Contains(One, msg)
    THEN /\ selected_option' = [selected_option EXCEPT ![o] = "takeaway"]
         /\ call_state' = [call_state EXCEPT ![o] = "takeaway"]
         /\ Return(t, msg, get_takeaway_greeting(o))
         /\ UNCHANGED <<language, selected_language, transfers>>
    ELSE IF Contains(Two, msg) \/ Contains(Three, msg)
    THEN /\ selected_option' = [selected_option EXCEPT ![o] = "transfer"]
         /\ call_state' = [call_state EXCEPT ![o] = "transfer"]
         /\ Return(t, msg, get_transfer_message(o))
         /\ UNCHANGED <<language, selected_language, transfers>>
    ELSE /\ Return(t, msg, <<"option_prompt", Localized(selected_language[o])>>)
         /\ UNCHANGED dialogVars

\* _handle_menu_selection up to its first await: initiate_transfer calls Twilio
\* synchronously when there is a client
handle_menu_selection(t, o, msg) ==
    IF Contains(One, msg)
    THEN /\ selected_option' = [selected_option EXCEPT ![o] = "takeaway"]
         /\ call_state' = [call_state EXCEPT ![o] = "takeaway"]
         /\ Return(t, msg, get_takeaway_greeting(o))
         /\ UNCHANGED <<language, selected_language, transfers>>
    ELSE IF Contains(Two, msg) \/ Contains(Three, msg)
    THEN /\ selected_option' = [selected_option EXCEPT ![o] = "transfer"]
         /\ call_state' = [call_state EXCEPT ![o] = "transfer"]
         /\ transfers' = [transfers EXCEPT ![o] = @ + 1]
         /\ IF twilio_client
            THEN Await(t, "xfer", msg)
            ELSE Return(t, msg, get_transfer_message(o))
         /\ UNCHANGED <<language, selected_language>>
    ELSE /\ Return(t, msg, <<"option_prompt", Localized(selected_language[o])>>)
         /\ UNCHANGED dialogVars

\* _handle_takeaway_flow up to its first await
handle_takeaway_flow(t, o, msg) ==
    IF off_topic(msg)
    THEN Return(t, msg, <<"redirect", Localized(selected_language[o])>>)
    ELSE IF ~openai_client
    THEN Return(t, msg, <<"unavailable", "nl">>)
    ELSE request_completion(t, o, msg)

\* a branch on call_state whose last branch looks at the history
Dispatch_by_history(t, o, msg) ==
    CASE call_state[o] = "welcome" -> handle_welcome_state(t, o, msg)
      [] call_state[o] = "language_select" -> handle_language_selection(t, o, msg)
      [] call_state[o] = "menu_select" -> handle_menu_selection(t, o, msg)
      [] call_state[o] = "takeaway" ->
            handle_takeaway_flow(t, o, msg) /\ UNCHANGED dialogVars
      [] OTHER ->
            /\ Return(t, msg, IF conversation_history[o] = << >>
                              THEN get_transfer_message(o)
                              ELSE <<"goodbye", Localized(selected_language[o])>>)
            /\ UNCHANGED dialogVars

\* a branch on call_state that lets a caller in task flow pick a language again
Dispatch_reselects(t, o, msg) ==
    CASE call_state[o] = "welcome" -> handle_welcome_state(t, o, msg)
      [] call_state[o] = "language_select" -> handle_language_selection(t, o, msg)
      [] call_state[o] = "menu_select" -> handle_menu_selection(t, o, msg)
      [] call_state[o] = "takeaway" ->
            IF language_choice(msg) # None
            THEN handle_language_selection(t, o, msg)
            ELSE handle_takeaway_flow(t, o, msg) /\ UNCHANGED dialogVars
      [] OTHER -> Return(t, msg, get_transfer_message(o)) /\ UNCHANGED dialogVars

\* a branch on call_state that sends an off-topic caller back to the welcome menu
Dispatch_restarts_dialog(t, o, msg) ==
    CASE call_state[o] = "welcome" -> handle_welcome_state(t, o, msg)
      [] call_state[o] = "language_select" -> handle_language_selection(t, o, msg)
      [] call_state[o] = "menu_select" -> handle_menu_selection(t, o, msg)
      [] call_state[o] = "takeaway" ->
            IF off_topic(msg)
            THEN handle_welcome_state(t, o, msg)
            ELSE handle_takeaway_flow(t, o, msg) /\ UNCHANGED dialogVars
      [] OTHER -> Return(t, msg, get_transfer_message(o)) /\ UNCHANGED dialogVars

\* generate_ai_response after the menu check: the branch on call_state
Dispatch(t, o, msg) ==
    CASE call_state[o] = "welcome" -> handle_welcome_state(t, o, msg)
      [] call_state[o] = "language_select" -> handle_language_selection(t, o, msg)
      [] call_state[o] = "menu_select" -> handle_menu_selection(t, o, msg)
      [] call_state[o] = "takeaway" ->
            handle_takeaway_flow(t, o, msg) /\ UNCHANGED dialogVars
      [] OTHER -> Return(t, msg, get_transfer_message(o)) /\ UNCHANGED dialogVars

\* generate_ai_response up to its first await
generate_ai_response(t, o, msg) ==
    IF NeedsRefresh
    THEN Await(t, "menu", msg) /\ UNCHANGED dialogVars
    ELSE Dispatch(t, o, msg)

\* a cleanup that only the "stop" branch reaches
cleanup_on_stop_only(h) ==
    IF inbox[h].event = "stop"
    THEN [active_sessions EXCEPT ![sid[h]] = None]
    ELSE active_sessions

\* a cleanup that empties the registry
cleanup_clears_registry(h) == [c \in CallIds |-> None]

\* the finally block of websocket_media_handler
finally_cleanup(h) == [active_sessions EXCEPT ![sid[h]] = None]

\* ------------------------------------------------------------ websocket_media_handler
\* await websocket.accept(); session = CallSession(...); active_sessions[call_sid] = session
Accept(h, c) ==
    /\ pc[h] = "idle"
    /\ ~LoopBlocked
    /\ pc' = [pc EXCEPT ![h] = "recv"]
    /\ sid' = [sid EXCEPT ![h] = c]
    /\ sess' = [sess EXCEPT ![h] = h]
    /\ active_sessions' = [active_sessions EXCEPT ![c] = h]
    /\ UNCHANGED <<sessionVars, inbox, ctx, user_message, response, reply, calls,
                   request, outbox, menuVars, clientVars, now, converterVars>>

\* the peer sends a message (or closes): receive_text has something to return
Deliver(h, m) ==
    /\ pc[h] = "recv"
    /\ inbox[h] = NoMsg
    /\ (m.event = "media" /\ m.payload > 0 /\ call_state[sess[h]] = "takeaway")
          => Len(conversation_history[sess[h]]) < 2 * MaxTurns
    /\ inbox' = [inbox EXCEPT ![h] = m]
    /\ calls' = [calls EXCEPT ![h] = NoCalls]
    /\ outbox' = [outbox EXCEPT ![h] = << >>]
    /\ UNCHANGED <<active_sessions, sessionVars, pc, sid, sess, ctx, user_message,
                   response, reply, request, menuVars, clientVars, now, converterVars>>

\* receive_text raises WebSocketDisconnect, json.loads or b64decode raises
Raises(m) ==
    \/ m.event \in {"<disconnect>", "<invalid json>"}
    \/ m.event = "media" /\ m.payload = -1

\* the loop is left (break, or an exception caught by the handler) and the
\* finally block runs; the coroutine returns
HandlerExit(h) ==
    /\ pc[h] = "recv"
    /\ inbox[h] # NoMsg
    /\ ~LoopBlocked
    /\ Raises(inbox[h]) \/ inbox[h].event = "stop"
    /\ active_sessions' = finally_cleanup(h)
    /\ pc' = [pc EXCEPT ![h] = "done"]
    /\ UNCHANGED <<sessionVars, sid, sess, inbox, ctx, user_message, response,
                   reply, calls, request, outbox, menuVars, clientVars, now,
                   converterVars>>

\* "connected", an unrecognised event, or a media event with no payload
IgnoreEvent(h) ==
    /\ pc[h] = "recv"
    /\ inbox[h] # NoMsg
    /\ ~LoopBlocked
    /\ \/ inbox[h].event \in {"connected", "other"}
       \/ inbox[h].event = "media" /\ inbox[h].payload = 0
    /\ inbox' = [inbox EXCEPT ![h] = NoMsg]
    /\ UNCHANGED <<active_sessions, sessionVars, pc, sid, sess, ctx, user_message,
                   response, reply, calls, request, outbox, menuVars, clientVars, now,
                   converterVars>>

\* "start": speak_response(welcome)
StartEvent(h) ==
    /\ pc[h] = "recv"
    /\ inbox[h].event = "start"
    /\ ~LoopBlocked
    /\ inbox' = [inbox EXCEPT ![h] = NoMsg]
    /\ ctx' = [ctx EXCEPT ![h] = "start"]
    /\ Return(h, NoText, <<"welcome", "nl">>)
    /\ UNCHANGED <<active_sessions, sessionVars, sid, sess, response, menuVars,
                   clientVars, now, converterVars>>

\* "media" with a payload: process_audio_chunk, and when the buffer is long
\* enough transcribe_and_respond up to its first await
MediaEvent(h) ==
    LET o == sess[h]
        n == audio_buffer[o] + inbox[h].payload
    IN  /\ pc[h] = "recv"
        /\ inbox[h].event = "media"
        /\ inbox[h].payload > 0
        /\ ~LoopBlocked
        /\ inbox' = [inbox EXCEPT ![h] = NoMsg]
        /\ audio_buffer' = [audio_buffer EXCEPT ![o] = n]
        /\ IF n > BufferThreshold
           THEN /\ ctx' = [ctx EXCEPT ![h] = "media"]
                /\ IF openai_client
                   THEN Await(h, "stt", NoText) /\ UNCHANGED dialogVars
                   ELSE \* transcribe_audio returns "test input" without awaiting
                        generate_ai_response(h, o, TestInput)
           ELSE UNCHANGED <<ctx, pc, reply, user_message, calls, request, outbox, dialogVars>>
        /\ UNCHANGED <<active_sessions, conversation_history, sid, sess, response,
                       menuVars, clientVars, now, converterVars>>

ProcessEvent(h) ==
    HandlerExit(h) \/ IgnoreEvent(h) \/ StartEvent(h) \/ MediaEvent(h)

\* an end of turn that keeps the audio for the next turn
EndTurn_keeps_audio(h) ==
    /\ UNCHANGED audio_buffer
    /\ ctx' = [ctx EXCEPT ![h] = "none"]
    /\ user_message' = [user_message EXCEPT ![h] = NoText]
    /\ response' = [response EXCEPT ![h] = NoText]
    /\ reply' = [reply EXCEPT ![h] = NoReply]
    /\ pc' = [pc EXCEPT ![h] = "recv"]
    /\ UNCHANGED <<calls, request, outbox>>

\* the end of the handler's work on one event: process_audio_chunk clears the
\* buffer after transcribe_and_respond returned; the loop awaits receive_text
EndTurn(h) ==
    /\ audio_buffer' = [audio_buffer EXCEPT
            ![sess[h]] = IF ctx[h] = "media" THEN 0 ELSE @]
    /\ ctx' = [ctx EXCEPT ![h] = "none"]
    /\ user_message' = [user_message EXCEPT ![h] = NoText]
    /\ response' = [response EXCEPT ![h] = NoText]
    /\ reply' = [reply EXCEPT ![h] = NoReply]
    /\ pc' = [pc EXCEPT ![h] = "recv"]
    /\ UNCHANGED <<calls, request, outbox>>

\* a test that lets the empty text of a failed transcription through
heard_nothing_unless_raised(out) == out.ok /\ IsBlank(out.text)

\* transcribe_audio returned "" from its except branch, or the text is empty
\* after strip()
heard_nothing(out) == ~out.ok \/ IsBlank(out.text)

\* openai_client.audio.transcriptions.create returns or raises
SttReturn(h, out) ==
    LET o == sess[h]
    IN  /\ pc[h] = "stt"
        /\ ~LoopBlocked
        /\ IF heard_nothing(out)
           THEN EndTurn(h) /\ UNCHANGED dialogVars
           ELSE /\ generate_ai_response(h, o, out.text)
                /\ UNCHANGED <<audio_buffer, ctx, response>>
        /\ UNCHANGED <<active_sessions, conversation_history, sid, sess, inbox,
                       menuVars, clientVars, now, converterVars>>

\* ------------------------------------------------------------ fetch_restaurant_menu
\* a fetch that empties the cache when the GET fails
fetch_restaurant_menu_clears_on_failure(out) ==
    IF out = "menu"
    THEN menu_data' = "menu" /\ menu_last_updated' = now
    ELSE menu_data' = None /\ menu_last_updated' = NoTime

\* the GET returns: status 200 stores the menu and the time, anything else
\* (another status, an exception) leaves the cache alone
fetch_restaurant_menu(out) ==
    IF out = "menu"
    THEN menu_data' = "menu" /\ menu_last_updated' = now
    ELSE UNCHANGED menuVars

MenuReturn(t, out) ==
    LET o == sess[t]
    IN  /\ pc[t] = "menu"
        /\ ~LoopBlocked
        /\ fetch_restaurant_menu(out)
        /\ IF t \in Handlers
           THEN Dispatch(t, o, user_message[t])
           ELSE handle_takeaway_flow(t, o, user_message[t]) /\ UNCHANGED dialogVars
        /\ UNCHANGED <<active_sessions, conversation_history, audio_buffer, sid,
                       sess, inbox, ctx, response, clientVars, now, converterVars>>

\* ------------------------------------------------------------ _handle_takeaway_flow
\* an except branch that hands the call over to the restaurant
generation_failed_transfers(t, o) ==
    /\ Return(t, user_message[t], <<"apology", "nl">>)
    /\ call_state' = [call_state EXCEPT ![o] = "transfer"]
    /\ transfers' = [transfers EXCEPT ![o] = @ + 1]
    /\ UNCHANGED <<conversation_history, response>>

\* an except branch that asks for the completion again
generation_failed_retries(t, o) ==
    /\ request_completion(t, o, user_message[t])
    /\ UNCHANGED <<call_state, transfers, conversation_history, response>>

\* the except branch: the completion call raised
generation_failed(t, o) ==
    /\ Return(t, user_message[t], <<"apology", "nl">>)
    /\ UNCHANGED <<call_state, transfers, conversation_history, response>>

\* the history update and `return response`
record_and_return(t, o, kind) ==
    /\ conversation_history' = AppendTurn(t, o)
    /\ Return(t, user_message[t], <<kind, "llm">>)

\* a transfer-phrase branch that changes the phase and leaves the call alone
transfer_triggered_phase_only(t, o) ==
    /\ call_state' = [call_state EXCEPT ![o] = "transfer"]
    /\ UNCHANGED transfers
    /\ record_and_return(t, o, "escalating")

\* a transfer-phrase branch that records the turn before it asks for the redirect
transfer_triggered_records_first(t, o) ==
    /\ call_state' = [call_state EXCEPT ![o] = "transfer"]
    /\ transfers' = [transfers EXCEPT ![o] = @ + 1]
    /\ IF twilio_client
       THEN Await(t, "xfer", user_message[t]) /\ conversation_history' = AppendTurn(t, o)
       ELSE record_and_return(t, o, "escalating")

\* the transfer-phrase branch: call_state = "transfer", then initiate_transfer,
\* which calls Twilio synchronously when there is a client
transfer_triggered(t, o) ==
    /\ call_state' = [call_state EXCEPT ![o] = "transfer"]
    /\ transfers' = [transfers EXCEPT ![o] = @ + 1]
    /\ IF twilio_client
       THEN Await(t, "xfer", user_message[t]) /\ UNCHANGED conversation_history
       ELSE record_and_return(t, o, "escalating")

\* openai_client.chat.completions.create returns or raises
GenReturn(t, out) ==
    LET o == sess[t]
    IN  /\ pc[t] = "gen"
        /\ ~LoopBlocked
        /\ IF ~out.ok
           THEN generation_failed(t, o)
           ELSE /\ response' = [response EXCEPT ![t] = out.text]
                /\ IF wants_transfer(out.text)
                   THEN transfer_triggered(t, o)
                   ELSE /\ record_and_return(t, o, "generated")
                        /\ UNCHANGED <<call_state, transfers>>
        /\ UNCHANGED <<active_sessions, language, selected_language, selected_option, audio_buffer,
                       sid, sess, inbox, ctx, menuVars, clientVars, now,
                       converterVars>>

\* twilio_client.calls(call_sid).update(...) returns or raises (initiate_transfer
\* catches it): _handle_takeaway_flow, which holds a response, goes on to the
\* history update; _handle_menu_selection returns the transfer message
XferReturn(t) ==
    /\ pc[t] = "xfer"
    /\ IF response[t] # NoText
       THEN record_and_return(t, sess[t], "escalating")
       ELSE /\ Return(t, user_message[t], get_transfer_message(sess[t]))
            /\ UNCHANGED conversation_history
    /\ UNCHANGED <<active_sessions, call_state, language, selected_language, selected_option,
                   audio_buffer, transfers, sid, sess, inbox, ctx, response,
                   menuVars, clientVars, now, converterVars>>

\* ------------------------------------------------------------ speak_response
\* a frame that names no stream
media_frame_unaddressed(o) == [event |-> "media", streamSid |-> None]

\* stream_audio_to_call: the message given to websocket.send_text (the payload
\* is the base64 text of the synthesised audio, left out)
media_frame(o) == [event |-> "media", streamSid |-> sid[o]]

\* the TTS request returns: status 200 goes on to stream_audio_to_call (suspends
\* at websocket.send_text), anything else drops the reply
TtsReturn(h, out) ==
    /\ pc[h] = "tts"
    /\ ~LoopBlocked
    /\ IF out = "ok"
       THEN /\ pc' = [pc EXCEPT ![h] = "send"]
            /\ calls' = [calls EXCEPT ![h].send = @ + 1]
            /\ outbox' = [outbox EXCEPT ![h] = Append(@, media_frame(sess[h]))]
            /\ UNCHANGED <<audio_buffer, ctx, reply, user_message, response, request>>
       ELSE EndTurn(h)
    /\ UNCHANGED <<active_sessions, call_state, language, selected_language, selected_option,
                   conversation_history, transfers, sid, sess, inbox,
                   menuVars, clientVars, now, converterVars>>

\* websocket.send_text returns or raises (stream_audio_to_call catches it)
SendReturn(h) ==
    /\ pc[h] = "send"
    /\ ~LoopBlocked
    /\ EndTurn(h)
    /\ UNCHANGED <<active_sessions, call_state, language, selected_language, selected_option,
                   conversation_history, transfers, sid, sess, inbox,
                   menuVars, clientVars, now, converterVars>>

\* ------------------------------------------------------------ chat_with_gpt4o
ChatMessages == {TestInput, Sport, NoText}

\* POST /api/chat up to its first await after the form was read
ChatStart(r, c, m) ==
    LET o == IF active_sessions[c] = None THEN r ELSE active_sessions[c]
    IN  /\ pc[r] = "idle"
        /\ ~LoopBlocked
        /\ sid' = [sid EXCEPT ![r] = c]
        /\ IF m = NoText
           THEN /\ pc' = [pc EXCEPT ![r] = "done"]
                /\ reply' = [reply EXCEPT ![r] = <<"error_no_message", "none">>]
                /\ UNCHANGED <<active_sessions, sess, user_message, calls, request, outbox>>
           ELSE IF ~openai_client
           THEN /\ pc' = [pc EXCEPT ![r] = "done"]
                /\ reply' = [reply EXCEPT ![r] = <<"error_unavailable", "nl">>]
                /\ UNCHANGED <<active_sessions, sess, user_message, calls, request, outbox>>
           ELSE /\ active_sessions' = [active_sessions EXCEPT ![c] = o]
                /\ sess' = [sess EXCEPT ![r] = o]
                /\ IF NeedsRefresh
                   THEN Await(r, "menu", m)
                   ELSE handle_takeaway_flow(r, o, m)
        /\ UNCHANGED <<sessionVars, inbox, ctx, response, menuVars, clientVars, now,
                       converterVars>>

\* ------------------------------------------------------------ the clock
Tick(n) ==
    /\ n > now
    /\ now' = n
    /\ UNCHANGED <<active_sessions, sessionVars, taskVars, menuVars, clientVars,
                   converterVars>>

\* ------------------------------------------------------------ TwilioAudioConverter
\* sum(len(chunk) for chunk in self.audio_buffer)
RECURSIVE total_bytes(_)
total_bytes(chunks) ==
    IF chunks = << >> THEN 0 ELSE BytesLen(Head(chunks)) + total_bytes(Tail(chunks))

\* a readiness test that wants more than the minimum duration
should_transcribe_strict ==
    total_bytes(converter_buffer) * 1000 > min_duration_ms * sample_rate

\* should_transcribe: (total_bytes / sample_rate) * 1000 >= min_duration_ms, the
\* quotient being exact (both sides multiplied by sample_rate)
should_transcribe ==
    total_bytes(converter_buffer) * 1000 >= min_duration_ms * sample_rate

\* the WAV file wave.open writes: mono, 16-bit, sample_rate, the frames
WavFile(frames) ==
    [nchannels |-> 1, sampwidth |-> 2, framerate |-> sample_rate, frames |-> frames]

\* an add that keeps only the latest chunk
add_audio_chunk_replaces(base64_payload) ==
    LET mulaw_data == b64decode(base64_payload)
    IN  /\ Len(converter_added) < MaxChunks
        /\ IF mulaw_data.ok
           THEN /\ converter_buffer' = <<mulaw_data.data>>
                /\ converter_added' = Append(converter_added, mulaw_data.data)
                /\ converter_result' = <<"add_audio_chunk", None>>
           ELSE /\ converter_result' = <<"add_audio_chunk", "binascii.Error">>
                /\ UNCHANGED <<converter_buffer, converter_added>>
        /\ UNCHANGED <<converter_clips, pipelineVars>>

\* add_audio_chunk: the peer sends at most MaxChunks chunks
add_audio_chunk(base64_payload) ==
    LET mulaw_data == b64decode(base64_payload)
    IN  /\ Len(converter_added) < MaxChunks
        /\ IF mulaw_data.ok
           THEN /\ converter_buffer' = Append(converter_buffer, mulaw_data.data)
                /\ converter_added' = Append(converter_added, mulaw_data.data)
                /\ converter_result' = <<"add_audio_chunk", None>>
           ELSE /\ converter_result' = <<"add_audio_chunk", "binascii.Error">>
                /\ UNCHANGED <<converter_buffer, converter_added>>
        /\ UNCHANGED <<converter_clips, pipelineVars>>

\* a conversion that keeps the audio it has returned
convert_to_wav_keeps_buffer ==
    /\ IF converter_buffer = << >>
       THEN converter_result' = <<"convert_to_wav", None>> /\ UNCHANGED converter_clips
       ELSE LET wav_data == WavFile(ulaw2lin(Join(converter_buffer)))
            IN  /\ converter_result' = <<"convert_to_wav", "bytes">>
                /\ converter_clips' = Append(converter_clips, wav_data)
    /\ UNCHANGED <<converter_buffer, converter_added, pipelineVars>>

\* convert_to_wav
convert_to_wav ==
    /\ IF converter_buffer = << >>
       THEN converter_result' = <<"convert_to_wav", None>> /\ UNCHANGED <<converter_buffer, converter_clips>>
       ELSE LET wav_data == WavFile(ulaw2lin(Join(converter_buffer)))
            IN  /\ converter_result' = <<"convert_to_wav", "bytes">>
                /\ converter_clips' = Append(converter_clips, wav_data)
                /\ converter_buffer' = << >>
    /\ UNCHANGED <<converter_added, pipelineVars>>

\* ------------------------------------------------------------ specifications
SttOutcomes == {Text(TestInput), Text(Sport), Text(Space), Raised}
GenOutcomes == {Text(Prima), Text(Transfer), Raised}
FetchOutcomes == {"menu", "fail"}
TtsOutcomes == {"ok", "fail"}

\* one call on the media stream and the requests to /api/chat
Caller == {"h1"}

Next ==
    \/ \E h \in Caller, c \in CallIds : Accept(h, c)
    \/ \E h \in Caller, m \in Messages : Deliver(h, m)
    \/ \E h \in Caller : ProcessEvent(h)
    \/ \E h \in Caller, out \in SttOutcomes : SttReturn(h, out)
    \/ \E t \in Caller \cup Chats, out \in FetchOutcomes : MenuReturn(t, out)
    \/ \E t \in Caller \cup Chats, out \in GenOutcomes : GenReturn(t, out)
    \/ \E t \in Caller \cup Chats : XferReturn(t)
    \/ \E h \in Caller, out \in TtsOutcomes : TtsReturn(h, out)
    \/ \E h \in Caller : SendReturn(h)
    \/ \E r \in Chats, c \in CallIds, m \in ChatMessages : ChatStart(r, c, m)

Spec == Init /\ [][Next]_vars

\* concurrent calls on the media stream
NextCalls ==
    \/ \E h \in Handlers, c \in CallIds : Accept(h, c)
    \/ \E h \in Handlers, m \in Messages : Deliver(h, m)
    \/ \E h \in Handlers : ProcessEvent(h)
    \/ \E h \in Handlers, out \in SttOutcomes : SttReturn(h, out)
    \/ \E h \in Handlers, out \in FetchOutcomes : MenuReturn(h, out)
    \/ \E h \in Handlers, out \in GenOutcomes : GenReturn(h, out)
    \/ \E h \in Handlers : XferReturn(h)
    \/ \E h \in Handlers, out \in TtsOutcomes : TtsReturn(h, out)
    \/ \E h \in Handlers : SendReturn(h)

SpecCalls == Init /\ [][NextCalls]_vars

\* The event loop resumes a task whose receive_text has a message, as soon as the
\* loop is free.  Nothing makes the peer send or an external call return.
FairCalls == SpecCalls /\ \A h \in Handlers : WF_vars(ProcessEvent(h))

\* one call, one chat request and the clock
FirstChat == {"r1"}

NextMenu ==
    \/ \E n \in Instants : Tick(n)
    \/ \E h \in Caller, c \in CallIds : Accept(h, c)
    \/ \E h \in Caller, m \in Messages : Deliver(h, m)
    \/ \E h \in Caller : ProcessEvent(h)
    \/ \E h \in Caller, out \in SttOutcomes : SttReturn(h, out)
    \/ \E t \in Caller \cup FirstChat, out \in FetchOutcomes : MenuReturn(t, out)
    \/ \E t \in Caller \cup FirstChat, out \in GenOutcomes : GenReturn(t, out)
    \/ \E t \in Caller \cup FirstChat : XferReturn(t)
    \/ \E h \in Caller, out \in TtsOutcomes : TtsReturn(h, out)
    \/ \E h \in Caller : SendReturn(h)
    \/ \E r \in FirstChat, c \in CallIds, m \in ChatMessages : ChatStart(r, c, m)

SpecMenu == Init /\ [][NextMenu]_vars

\* The dialog of one call, from any phase and language: a CallSession whose
\* call_state and selected_language were set after construction, as
\* test_gpt4o_flow.py and test_no_demo.py do, and what the caller and the
\* completion can say in each phase.
Phases == {"welcome", "language_select", "menu_select", "takeaway", "transfer"}
DialogInputs ==
    {Text(s) : s \in {TestInput, Sport, Space, One, Two, Three, Four, OneTwo,
                      Nederlands, Deux, Quatre}} \cup {Raised}
\* message.content may be the empty string
DialogReplies ==
    {Text(s) : s \in {Prima, Transfer, NeSaisPas, WeetNiet, NoText}} \cup {Raised}

InitDialog ==
    /\ InitProcess
    /\ \E p \in Phases, l \in {Languages[i] : i \in DOMAIN Languages} :
        /\ call_state = [o \in Tasks |-> p]
        /\ \E k \in {CallSession.language, l} : language = [o \in Tasks |-> k]
        /\ selected_language = [o \in Tasks |-> l]
    /\ selected_option = [o \in Tasks |-> CallSession.selected_option]
    /\ conversation_history = [o \in Tasks |-> CallSession.conversation_history]
    /\ InitConverter

NextDialog ==
    \/ \E h \in Caller, c \in CallIds : Accept(h, c)
    \/ \E h \in Caller, m \in Messages : Deliver(h, m)
    \/ \E h \in Caller : ProcessEvent(h)
    \/ \E h \in Caller, out \in DialogInputs : SttReturn(h, out)
    \/ \E h \in Caller, out \in FetchOutcomes : MenuReturn(h, out)
    \/ \E h \in Caller, out \in DialogReplies : GenReturn(h, out)
    \/ \E h \in Caller : XferReturn(h)
    \/ \E h \in Caller, out \in TtsOutcomes : TtsReturn(h, out)
    \/ \E h \in Caller : SendReturn(h)

SpecDialog == InitDialog /\ [][NextDialog]_vars

\* Requests to /api/chat on sessions that have already had up to MaxPastTurns
\* turns: the history after k turns is k pairs of a user and an assistant entry.
MaxPastTurns == 4
PastHistory(k) ==
    [i \in 1..(2 * k) |->
        <<IF i % 2 = 1 THEN "user" ELSE "assistant", ToString((i + 1) \div 2)>>]

InitHistory ==
    /\ InitProcess
    /\ call_state = [o \in Tasks |-> CallSession.call_state]
    /\ language = [o \in Tasks |-> CallSession.language]
    /\ selected_language = [o \in Tasks |-> CallSession.selected_language]
    /\ selected_option = [o \in Tasks |-> CallSession.selected_option]
    /\ \E k \in 0..MaxPastTurns : conversation_history = [o \in Tasks |-> PastHistory(k)]
    /\ InitConverter

NextHistory ==
    \/ \E r \in Chats, c \in CallIds, m \in ChatMessages : ChatStart(r, c, m)
    \/ \E r \in Chats, out \in FetchOutcomes : MenuReturn(r, out)
    \/ \E r \in Chats, out \in GenOutcomes : GenReturn(r, out)
    \/ \E r \in Chats : XferReturn(r)

SpecHistory == InitHistory /\ [][NextHistory]_vars

\* a TwilioAudioConverter fed by a peer
NextConverter ==
    \/ \E p \in Payloads : add_audio_chunk(p)
    \/ convert_to_wav

SpecConverter == Init /\ [][NextConverter]_vars

\* ------------------------------------------------------------ properties
Running(h) == pc[h] \notin {"idle", "done"}
Exits(h) == pc[h] # "done" /\ pc'[h] = "done"
\* the handler takes the message receive_text returned
Handled(h) == pc[h] = "recv" /\ inbox[h] # NoMsg /\ (pc'[h] # "recv" \/ inbox'[h] = NoMsg)
\* the task's reply-producing coroutine returns a reply of one of these kinds
TurnReturns(t, kinds) == reply[t] = NoReply /\ reply'[t][1] \in kinds
\* the task issues a chat-completion request
CallsCompletion(t) == pc[t] # "gen" /\ pc'[t] = "gen"
SameSession(o) ==
    /\ call_state'[o] = call_state[o]
    /\ language'[o] = language[o]
    /\ selected_language'[o] = selected_language[o]
    /\ conversation_history'[o] = conversation_history[o]
    /\ audio_buffer'[o] = audio_buffer[o]

\* C1: whenever websocket_media_handler returns (stop event, disconnect or an
\* exception while receiving or processing an event), its call_sid is not a key
\* of active_sessions in the state it returns in.
C1_SessionCleanup ==
    [][\A h \in Handlers : Exits(h) => active_sessions'[sid[h]] = None]_vars

\* a handler has returned on an exception, another on "stop", ids deregistered
C1_Witness ==
    \E a, b \in Handlers :
        /\ pc[a] = "done" /\ Raises(inbox[a]) /\ active_sessions[sid[a]] = None
        /\ pc[b] = "done" /\ inbox[b].event = "stop" /\ active_sessions[sid[b]] = None

\* C2: once a reply has triggered a transfer on a session, its call_state stays
\* "transfer" and no task issues a further chat-completion request for it.
C2_TransferMonotone ==
    [][\A o \in Tasks : call_state[o] = "transfer" =>
            /\ call_state'[o] = "transfer"
            /\ \A t \in Tasks : CallsCompletion(t) => sess'[t] # o]_vars

\* C3: every turn that got past the off-topic check (it returns a generated
\* reply, the apology or the unavailable message) lengthens the session's
\* conversation_history by exactly 2 in the step that returns the reply.
C3_HistoryGrowsByTwo ==
    [][\A t \in Tasks :
            TurnReturns(t, {"generated", "escalating", "apology", "unavailable"}) =>
                Len(conversation_history'[sess'[t]])
                    = Len(conversation_history[sess'[t]]) + 2]_vars

TurnInFlight(t) ==
    IF t \in Handlers
    THEN pc[t] \in {"stt", "menu", "gen", "xfer", "tts", "send"} /\ ctx[t] = "media"
    ELSE pc[t] \in {"gen", "xfer"}

C5_OneTurnPerSession ==
    \A o \in Tasks : Cardinality({t \in Tasks : sess[t] = o /\ TurnInFlight(t)}) <= 1

\* C6: a consumer that gets past the menu check with menu data absent, or with
\* more than an hour elapsed since last_updated, fetches the menu.
PassesMenuCheck(t) ==
    /\ pc[t] \in {"idle", "recv", "stt"}
    /\ \/ pc'[t] \in {"menu", "gen"}
       \/ reply'[t][1] \in {"redirect", "unavailable", "transfer_msg"}

C6_StaleMenuRefetched ==
    [][\A t \in Tasks :
            (/\ PassesMenuCheck(t)
             /\ \/ menu_data = None
                \/ now - menu_last_updated > StaleAfter)
                => pc'[t] = "menu"]_vars

\* C7: while one call's task is inside an external call, a message another
\* call's receive_text has ready is eventually taken by its handler.
InExternalCall(t) == pc[t] \in {"stt", "menu", "gen", "xfer", "tts"}
Pending(h) == pc[h] = "recv" /\ inbox[h] # NoMsg

C7_OthersKeepRunning ==
    \A a, b \in Handlers :
        (a # b /\ InExternalCall(a) /\ Pending(b)) ~> ~Pending(b)

\* C8: when a handler returns on a disconnect or an exception, every running
\* handler with another call_sid keeps its entry of active_sessions and its
\* session's call_state, language, conversation_history and audio_buffer.
C8_OtherSessionsUntouched ==
    [][\A a, b \in Handlers :
            (Exits(a) /\ Raises(inbox[a]) /\ Running(b) /\ sid[b] # sid[a]) =>
                /\ active_sessions'[sid[b]] = b
                /\ SameSession(b)]_vars

\* a handler has returned on an exception while another call, with a history and
\* buffered audio, is registered
C8_Witness ==
    \E a, b \in Handlers :
        /\ pc[a] = "done" /\ Raises(inbox[a])
        /\ Running(b) /\ sid[b] # sid[a] /\ active_sessions[sid[b]] = b
        /\ Len(conversation_history[b]) = 2 /\ audio_buffer[b] > 0

\* C9: a message with an unrecognised event type, one that is not valid JSON, or
\* a media event whose payload is missing or undecodable, leaves the session
\* registered and unchanged, and the handler waits for the next message.
Malformed(m) ==
    \/ m.event \in {"other", "<invalid json>"}
    \/ m.event = "media" /\ m.payload \in {0, -1}

C9_MalformedIgnored ==
    [][\A h \in Handlers :
            (Handled(h) /\ Malformed(inbox[h])) =>
                /\ pc'[h] = "recv"
                /\ active_sessions'[sid[h]] = active_sessions[sid[h]]
                /\ SameSession(sess[h])]_vars

\* C10: between accept and the return of its handler, active_sessions[call_sid]
\* is the CallSession that handler created.
C10_RegisteredWhileRunning ==
    \A h \in Handlers : Running(h) => active_sessions[sid[h]] = h

\* C11: should_transcribe() is true exactly when the buffered bytes b satisfy
\* b / sample_rate * 1000 >= min_duration_ms: with 8000 and 1000 it is true at
\* 8000 bytes and above, false at 7999 and below.
C11_ReadyAtMinDuration ==
    LET b == total_bytes(converter_buffer)
    IN  /\ b >= 8000 => should_transcribe
        /\ b <= 7999 => ~should_transcribe

\* two chunks, 7999 bytes and 1 byte, make the converter ready
C11_Witness ==
    /\ Len(converter_buffer) = 2
    /\ total_bytes(converter_buffer) = 8000
    /\ should_transcribe

\* C12: a media chunk that brings the session's buffer to 16000 bytes or more
\* starts a turn, one that leaves it below 16000 does not.
C12_TurnAtThreshold ==
    [][\A h \in Handlers :
            (pc[h] = "recv" /\ audio_buffer'[sess[h]] > audio_buffer[sess[h]]) =>
                (audio_buffer'[sess[h]] >= 16000 <=> ctx'[h] = "media")]_vars

\* C13: after convert_to_wav, whatever the buffer held, should_transcribe() is
\* false, and a convert_to_wav that follows another with no chunk added in
\* between returns no audio (None).
C13_DrainResets ==
    [][converter_result'[1] = "convert_to_wav" =>
            /\ ~should_transcribe'
            /\ converter_result[1] = "convert_to_wav" => converter_result'[2] = None]_vars

\* a ready buffer was converted, and the next conversion returned None
C13_Witness ==
    /\ converter_result = <<"convert_to_wav", None>>
    /\ Len(converter_clips) = 1
    /\ Len(converter_added) = 1
    /\ total_bytes(converter_added) >= 8000

\* C14: the frames of all the WAVs returned so far, followed by the decoded
\* content of the buffer, are the decoded concatenation of all the chunks added,
\* in order; a convert_to_wav returns the whole buffer and leaves it empty.
C14_NoChunkLost ==
    [][/\ Cat(Join([i \in DOMAIN converter_clips' |-> converter_clips'[i].frames]),
              ulaw2lin(Join(converter_buffer')))
            = ulaw2lin(Join(converter_added'))
       /\ converter_result'[1] = "convert_to_wav" =>
            /\ converter_buffer' = << >>
            /\ converter_buffer # << >> =>
                    /\ Len(converter_clips') = Len(converter_clips) + 1
                    /\ converter_result'[2] = "bytes"
                    /\ converter_clips'[Len(converter_clips')].frames
                            = ulaw2lin(Join(converter_buffer))
      ]_vars

\* two WAVs were returned and a third chunk is buffered
C14_Witness ==
    /\ Len(converter_clips) = 2
    /\ converter_clips[1] # converter_clips[2]
    /\ total_bytes(converter_buffer) > 0

\* C15: when the transcription request fails or its text is empty or only
\* whitespace, the turn ends there: no completion request, no TTS request and no
\* frame were issued, the handler goes on receiving, and the session's
\* call_state, language and conversation_history are as before.
C15_NothingHeard ==
    [][\A h \in Handlers, out \in SttOutcomes :
            ((~out.ok \/ IsBlank(out.text)) /\ SttReturn(h, out)) =>
                /\ pc'[h] = "recv"
                /\ calls'[h] = [stt |-> 1, gen |-> 0, tts |-> 0, send |-> 0]
                /\ call_state'[sess[h]] = call_state[sess[h]]
                /\ language'[sess[h]] = language[sess[h]]
                /\ conversation_history'[sess[h]] = conversation_history[sess[h]]]_vars

\* a turn ended after its transcription request and nothing else
C15_Witness ==
    \E h \in Handlers :
        /\ pc[h] = "recv"
        /\ calls[h] = [stt |-> 1, gen |-> 0, tts |-> 0, send |-> 0]
        /\ active_sessions[sid[h]] = h
        /\ audio_buffer[sess[h]] = 0

\* C16: within one turn a handler issues at most one transcription request, one
\* completion request and one TTS request, whatever their outcomes.
C16_OneRequestEach ==
    \A h \in Handlers : calls[h].stt <= 1 /\ calls[h].gen <= 1 /\ calls[h].tts <= 1

\* a turn whose completion raised and whose TTS request failed is over, the
\* handler receiving again
C16_Witness ==
    \E h \in Handlers :
        /\ pc[h] = "recv"
        /\ calls[h] = [stt |-> 1, gen |-> 1, tts |-> 1, send |-> 0]
        /\ conversation_history[sess[h]] = << >>

\* the handler's turn reaches the branch on call_state with the session in this
\* phase; user_message'[h] is the text it was entered with
DispatchedIn(h, phase) ==
    /\ pc[h] \in {"recv", "stt", "menu"}
    /\ reply[h] = NoReply
    /\ call_state[sess[h]] = phase
    /\ ctx'[h] = "media"
    /\ pc'[h] \in {"gen", "xfer", "tts"}

\* C17: in phase menu_select an input that contains "2" or "3" and not "1" sets
\* call_state to "transfer", invokes initiate_transfer exactly once and returns
\* the fixed transfer message of the selected language.
C17_MenuOptionTransfers ==
    [][\A h \in Handlers :
            LET o == sess[h]
                m == user_message'[h]
            IN  /\ (/\ DispatchedIn(h, "menu_select")
                    /\ Contains(Two, m) \/ Contains(Three, m)
                    /\ ~Contains(One, m)) =>
                        /\ call_state'[o] = "transfer"
                        /\ transfers'[o] = transfers[o] + 1
                        /\ IF twilio_client
                           THEN pc'[h] = "xfer"
                           ELSE reply'[h] = <<"transfer_msg", selected_language[o]>>
                \* initiate_transfer returns to _handle_menu_selection
                /\ (pc[h] = "xfer" /\ response[h] = NoText /\ pc'[h] # "xfer") =>
                        /\ call_state'[o] = "transfer"
                        /\ transfers'[o] = transfers[o]
                        /\ reply'[h] = <<"transfer_msg", selected_language[o]>>]_vars

\* option "2", said in French with a Twilio client: the transfer message is on
\* its way after one initiate_transfer
C17_Witness ==
    \E h \in Handlers :
        /\ pc[h] = "tts"
        /\ user_message[h] = Two
        /\ reply[h] = <<"transfer_msg", "fr">>
        /\ call_state[sess[h]] = "transfer"
        /\ transfers[sess[h]] = 1
        /\ twilio_client

\* C18: in phase menu_select an input with "1" in it sets call_state to
\* "takeaway" and returns the fixed takeaway greeting of the selected language,
\* without a transfer and without a completion request.
C18_MenuOptionTakeaway ==
    [][\A h \in Handlers :
            LET o == sess[h]
            IN  (DispatchedIn(h, "menu_select") /\ Contains(One, user_message'[h])) =>
                    /\ call_state'[o] = "takeaway"
                    /\ reply'[h] = <<"takeaway_greeting", selected_language[o]>>
                    /\ transfers'[o] = transfers[o]
                    /\ pc'[h] = "tts"
                    /\ calls'[h].gen = 0]_vars

\* "12" said in Italian: the greeting is on its way, nothing was transferred
C18_Witness ==
    \E h \in Handlers :
        /\ pc[h] = "tts"
        /\ user_message[h] = OneTwo
        /\ reply[h] = <<"takeaway_greeting", "it">>
        /\ call_state[sess[h]] = "takeaway"
        /\ transfers[sess[h]] = 0

\* C19: in phase takeaway an input that contains an off-topic keyword, in any
\* letter case, returns the fixed redirect message of the selected language
\* without a completion request; call_state stays "takeaway", no transfer is
\* initiated and conversation_history is unchanged.
C19_OffTopicRedirect ==
    [][\A h \in Handlers :
            LET o == sess[h]
            IN  (/\ DispatchedIn(h, "takeaway")
                 /\ \E k \in off_topic_keywords : Contains(k, Lower(user_message'[h]))) =>
                    /\ reply'[h] = <<"redirect", selected_language[o]>>
                    /\ pc'[h] = "tts"
                    /\ calls'[h].gen = 0
                    /\ call_state'[o] = "takeaway"
                    /\ transfers'[o] = transfers[o]
                    /\ conversation_history'[o] = conversation_history[o]]_vars

\* "Sport" said to a French session in task flow
C19_Witness ==
    \E h \in Handlers :
        /\ pc[h] = "tts"
        /\ user_message[h] = Sport
        /\ reply[h] = <<"redirect", "fr">>
        /\ call_state[sess[h]] = "takeaway"

\* C20: when the completion request of a session in phase takeaway succeeds,
\* call_state becomes "transfer" and initiate_transfer is invoked if and only if
\* the reply contains, in any letter case, one of the transfer phrases; otherwise
\* call_state stays "takeaway" and nothing is transferred.
C20_TransferIffPhrase ==
    [][\A h \in Handlers :
            LET o == sess[h]
                escalates == \E p \in transfer_phrases : Contains(p, Lower(response'[h]))
            IN  (/\ pc[h] = "gen"
                 /\ call_state[o] = "takeaway"
                 /\ response'[h] # response[h]) =>
                    IF escalates
                    THEN call_state'[o] = "transfer" /\ transfers'[o] = transfers[o] + 1
                    ELSE call_state'[o] = "takeaway" /\ transfers'[o] = transfers[o]]_vars

\* the completion answered "Transfer" and the session was handed over
C20_Witness ==
    \E h \in Handlers :
        /\ response[h] = Transfer
        /\ call_state[sess[h]] = "transfer"
        /\ transfers[sess[h]] = 1
        /\ Len(conversation_history[sess[h]]) = 2

\* C21: once a session's call_state is "transfer", an input that reaches the
\* handler afterwards leaves call_state, conversation_history and language as
\* they are, invokes no initiate_transfer and produces no reply for the caller.
C21_TransferAbsorbing ==
    [][\A h \in Handlers :
            LET o == sess[h]
            IN  (/\ pc[h] \in {"recv", "stt", "menu"}
                 /\ reply[h] = NoReply
                 /\ inbox[h].event # "start"
                 /\ call_state[o] = "transfer") =>
                    /\ call_state'[o] = "transfer"
                    /\ conversation_history'[o] = conversation_history[o]
                    /\ language'[o] = language[o]
                    /\ transfers'[o] = transfers[o]
                    /\ reply'[h] = NoReply]_vars

\* C26: the messages of a completion request are the system prompt, the last 6
\* entries of conversation_history in order (all of them when there are fewer),
\* and the new user turn; no step removes or changes an entry of
\* conversation_history.
C26_RequestWindow ==
    [][/\ \A t \in Tasks :
            CallsCompletion(t) =>
                LET h == conversation_history[sess'[t]]
                    n == Len(h)
                IN  request'[t] =
                        << <<"system", "prompt">> >>
                            \o (IF n <= 6 THEN h ELSE SubSeq(h, n - 5, n))
                            \o << <<"user", t>> >>
       /\ \A o \in Tasks :
            /\ Len(conversation_history'[o]) >= Len(conversation_history[o])
            /\ SubSeq(conversation_history'[o], 1, Len(conversation_history[o]))
                    = conversation_history[o]]_vars

\* a request is in flight on a session with 8 entries: it carries 6 of them
C26_Witness ==
    \E t \in Tasks :
        /\ pc[t] = "gen"
        /\ Len(conversation_history[sess[t]]) = 8
        /\ Len(request[t]) = 8
        /\ request[t][2] = <<"user", "2">>

\* C22: for the inputs handled without a completion request (phases welcome,
\* language_select, menu_select and transfer, and takeaway with an off-topic
\* keyword) the next call_state and the reply are a function of the phase, the
\* selected language and the input alone: sessions that differ in
\* conversation_history, audio_buffer or call_sid get the same ones.
C22_Deterministic ==
    [][\A h \in Handlers :
            LET o == sess[h]
                m == user_message'[h]
                p == call_state[o]
                l == selected_language[o]
                NextPhase(ph, msg) ==
                    CASE ph = "welcome" -> "language_select"
                      [] ph = "language_select" ->
                            IF language_choice(msg) # None
                            THEN "menu_select" ELSE "language_select"
                      [] ph = "menu_select" ->
                            IF Contains(One, msg) THEN "takeaway"
                            ELSE IF Contains(Two, msg) \/ Contains(Three, msg)
                            THEN "transfer" ELSE "menu_select"
                      [] OTHER -> ph
                ReplyFor(ph, lang, msg) ==
                    CASE ph = "welcome" -> <<"language_menu", "all">>
                      [] ph = "language_select" ->
                            IF language_choice(msg) # None
                            THEN <<"option_menu", language_choice(msg)>>
                            ELSE <<"language_prompt", "en">>
                      [] ph = "menu_select" ->
                            IF Contains(One, msg) THEN <<"takeaway_greeting", lang>>
                            ELSE IF Contains(Two, msg) \/ Contains(Three, msg)
                            THEN <<"transfer_msg", lang>>
                            ELSE <<"option_prompt", lang>>
                      [] ph = "takeaway" -> <<"redirect", lang>>
                      [] OTHER -> <<"transfer_msg", lang>>
            IN  /\ (/\ DispatchedIn(h, p)
                    /\ p = "takeaway" =>
                        \E k \in off_topic_keywords : Contains(k, Lower(m))) =>
                        /\ call_state'[o] = NextPhase(p, m)
                        /\ pc'[h] = "tts" => reply'[h] = ReplyFor(p, l, m)
                \* initiate_transfer returns to _handle_menu_selection
                /\ (pc[h] = "xfer" /\ response[h] = NoText /\ pc'[h] = "tts") =>
                        reply'[h] = ReplyFor("menu_select", l, user_message[h])]_vars

\* a session in transfer that has a history and was transferred once gets the
\* transfer message, as one without a history does
C22_Witness ==
    \E h \in Handlers :
        /\ pc[h] = "tts"
        /\ call_state[sess[h]] = "transfer"
        /\ reply[h] = <<"transfer_msg", "it">>
        /\ Len(conversation_history[sess[h]]) = 2
        /\ sid[h] = "CA2"

\* C23: when an input has several language tokens (phase language_select) the
\* first branch in the order Dutch, French, Italian, English is taken; when it
\* has "1" and also "2" or "3" (phase menu_select) option "1" is taken; the
\* keywords are matched whatever their letter case.
C23_FirstBranchWins ==
    [][\A h \in Handlers :
            LET o == sess[h]
                m == user_message'[h]
                Has(l) == \/ Contains(language_digit[l], m)
                          \/ \E k \in language_keywords[l] : Contains(k, Lower(m))
            IN  /\ (DispatchedIn(h, "language_select")
                        /\ (Has("nl") \/ Has("fr") \/ Has("it") \/ Has("en"))) =>
                        selected_language'[o] =
                            IF Has("nl") THEN "nl"
                            ELSE IF Has("fr") THEN "fr"
                            ELSE IF Has("it") THEN "it" ELSE "en"
                /\ (DispatchedIn(h, "menu_select") /\ Contains(One, m)
                        /\ (Contains(Two, m) \/ Contains(Three, m))) =>
                        call_state'[o] = "takeaway"]_vars

\* "12" said in phase language_select: Dutch
C23_Witness ==
    \E h \in Handlers :
        /\ pc[h] = "tts"
        /\ user_message[h] = OneTwo
        /\ reply[h] = <<"option_menu", "nl">>
        /\ call_state[sess[h]] = "menu_select"

\* C24: in phase language_select an input with a language token sets language
\* and selected_language to that language, call_state to "menu_select", and
\* returns that language's option menu; an input with no token leaves
\* call_state, language and selected_language as they are and returns the
\* re-prompt.
C24_LanguageSelection ==
    [][\A h \in Handlers :
            LET o == sess[h]
                m == user_message'[h]
                Has(l) == \/ Contains(language_digit[l], m)
                          \/ \E k \in language_keywords[l] : Contains(k, Lower(m))
            IN  DispatchedIn(h, "language_select") =>
                    IF Has("nl") \/ Has("fr") \/ Has("it") \/ Has("en")
                    THEN /\ Has(selected_language'[o])
                         /\ language'[o] = selected_language'[o]
                         /\ call_state'[o] = "menu_select"
                         /\ reply'[h] = <<"option_menu", selected_language'[o]>>
                    ELSE /\ selected_language'[o] = selected_language[o]
                         /\ language'[o] = language[o]
                         /\ call_state'[o] = "language_select"
                         /\ reply'[h] = <<"language_prompt", "en">>]_vars

\* "DEUX": French recorded in both fields, the French option menu on its way
C24_Witness ==
    \E h \in Handlers :
        /\ pc[h] = "tts"
        /\ user_message[h] = Deux
        /\ reply[h] = <<"option_menu", "fr">>
        /\ language[sess[h]] = "fr"
        /\ selected_language[sess[h]] = "fr"
        /\ call_state[sess[h]] = "menu_select"

\* C25: a session whose call_state is "takeaway" (or "transfer", the only phase
\* that follows it) stays in these two phases and keeps its language and
\* selected_language in every step: once task flow has begun the language never
\* changes.
C25_LanguageFixedInTaskFlow ==
    [][\A o \in Tasks :
            call_state[o] \in {"takeaway", "transfer"} =>
                /\ call_state'[o] \in {"takeaway", "transfer"}
                /\ language'[o] = language[o]
                /\ selected_language'[o] = selected_language[o]]_vars

\* an Italian session in task flow has had a turn in which the caller said "3"
C25_Witness ==
    \E h \in Handlers :
        /\ sess[h] # None
        /\ call_state[sess[h]] = "takeaway"
        /\ selected_language[sess[h]] = "it"
        /\ user_message[h] = Three
        /\ pc[h] = "gen"

\* C27: when the TTS request of a turn succeeds, exactly one media frame is
\* handed to the websocket, tagged with the session's call identifier, and no
\* other frame is sent in the turn; when it fails (status other than 200, or an
\* exception) no frame is sent, no request is repeated, the handler does not
\* end and it goes back to receiving the next inbound event.
C27_OneFramePerReply ==
    [][\A h \in Handlers :
            /\ \A out \in TtsOutcomes : TtsReturn(h, out) =>
                    IF out = "ok"
                    THEN /\ outbox[h] = << >>
                         /\ outbox'[h] = << [event |-> "media", streamSid |-> sid[h]] >>
                         /\ calls'[h].send = 1
                         /\ calls'[h].tts = 1
                    ELSE /\ outbox'[h] = << >>
                         /\ calls'[h] = calls[h]
                         /\ calls'[h].tts = 1
                         /\ pc'[h] = "recv"
                         /\ sess'[h] = sess[h]
                         /\ active_sessions' = active_sessions
            /\ (pc[h] \in {"tts", "send"} /\ pc'[h] \notin {"tts", "send"}) =>
                    /\ outbox'[h] = outbox[h]
                    /\ calls'[h] = calls[h]
            /\ Len(outbox'[h]) <= 1]_vars

\* one call has had its reply sent as one frame with its call id while the other
\* call, whose synthesis failed, sent nothing and is receiving again
C27_Witness ==
    \E h, g \in Handlers :
        /\ h # g
        /\ sid[h] # sid[g]
        /\ pc[h] = "recv"
        /\ calls[h].tts = 1
        /\ calls[h].send = 1
        /\ outbox[h] = << [event |-> "media", streamSid |-> sid[h]] >>
        /\ pc[g] = "recv"
        /\ calls[g].tts = 1
        /\ calls[g].send = 0
        /\ outbox[g] = << >>
        /\ active_sessions[sid[g]] = g

\* C28: a drained clip whose transcript is not blank leads, in the same turn,
\* to exactly one synthesis attempt, and the text given to it is not empty: a
\* turn that has a transcript goes on until speak_response is called, never
\* calls it twice, and the reply it passes is a fixed notice or a completion
\* text of at least one character.
C28_CallerHearsSomething ==
    [][\A h \in Handlers :
            /\ \A out \in DialogInputs :
                    (SttReturn(h, out) /\ out.ok /\ ~IsBlank(out.text)) =>
                        pc'[h] \in {"menu", "gen", "xfer", "tts"}
            /\ (pc[h] \in {"menu", "gen", "xfer"} /\ ctx[h] = "media") =>
                        pc'[h] \in {"menu", "gen", "xfer", "tts"}
            /\ (pc[h] # "tts" /\ pc'[h] = "tts" /\ ctx'[h] = "media") =>
                    /\ calls'[h].tts = 1
                    /\ reply'[h] # NoReply
                    /\ reply'[h][2] = "llm" => response'[h] # NoText]_vars

\* C29: while openai_client is None no transcription and no completion request
\* is issued and a turn in task flow gets the fixed 'service unavailable'
\* reply; while twilio_client is None no call-update request is issued and no
\* turn moves the session to "transfer".
C29_UnavailableClient ==
    [][\A h \in Handlers :
            LET o == sess'[h]
            IN  /\ ~openai_client =>
                    /\ pc'[h] \notin {"stt", "gen"}
                    /\ calls'[h].stt = 0
                    /\ calls'[h].gen = 0
                    /\ (DispatchedIn(h, "takeaway")
                            /\ ~off_topic(user_message'[h])) =>
                            reply'[h] = <<"unavailable", "nl">>
                /\ ~twilio_client =>
                    /\ pc'[h] # "xfer"
                    /\ (o # None /\ call_state[o] # "transfer") =>
                            call_state'[o] # "transfer"]_vars

\* C30: the session a task creates starts in task flow with Dutch preset:
\* call_state "takeaway", language and selected_language "nl", selected_option
\* "takeaway", an empty conversation_history and an empty audio_buffer.
C30_ConstructorDefaults ==
    [][\A t \in Tasks :
            (sess[t] = None /\ sess'[t] = t) =>
                /\ call_state'[t] = "takeaway"
                /\ language'[t] = "nl"
                /\ selected_language'[t] = "nl"
                /\ selected_option'[t] = "takeaway"
                /\ conversation_history'[t] = << >>
                /\ audio_buffer'[t] = 0]_vars

\* two sessions just created by two media-stream handlers
C30_Witness ==
    \E h, g \in Handlers :
        /\ h # g
        /\ sess[h] = h
        /\ pc[h] = "recv"
        /\ active_sessions[sid[h]] = h
        /\ call_state[h] = "takeaway"
        /\ language[h] = "nl"
        /\ conversation_history[h] = << >>
        /\ audio_buffer[h] = 0
        /\ sess[g] = g
        /\ call_state[g] = "takeaway"
        /\ selected_language[g] = "nl"
        /\ selected_option[g] = "takeaway"

\* C31: on a session created by /api/chat, once every request that took the
\* session has returned, conversation_history holds two entries per request:
\* after the i-th non-empty message on a fresh session_id the length is 2 * i.
C31_ConversationMemory ==
    \A c \in CallIds :
        LET o == active_sessions[c]
            requests == {r \in Chats : sess[r] = o}
        IN  (o \in Chats /\ \A r \in requests : pc[r] = "done") =>
                Len(conversation_history[o]) = 2 * Cardinality(requests)

\* C32: conversation_history is append-only and well-formed: every step keeps
\* the previous history as a prefix, and in every state the length is even and
\* the entries alternate user, assistant, each user entry followed by the reply
\* recorded for the same turn - also when two requests hold the same session
\* while their completions are awaited.
C32_HistoryWellFormed ==
    [][\A o \in Tasks :
            LET old == conversation_history[o]
                new == conversation_history'[o]
            IN  /\ Len(new) >= Len(old)
                /\ SubSeq(new, 1, Len(old)) = old
                /\ Len(new) % 2 = 0
                /\ \A i \in 1..Len(new) :
                        IF i % 2 = 1
                        THEN /\ new[i][1] = "user"
                             /\ new[i + 1] = <<"assistant", new[i][2]>>
                        ELSE new[i][1] = "assistant"]_vars

\* two requests overlap on one session: one has recorded its turn and returned
\* while the other, whose messages were built before that, still awaits its
\* completion
C32_Witness ==
    \E r, q \in Chats :
        /\ r # q
        /\ sess[r] # None
        /\ sess[r] = sess[q]
        /\ pc[r] = "done"
        /\ pc[q] = "gen"
        /\ \A i \in 1..Len(request[q]) : request[q][i] # <<"user", r>>
        /\ LET h == conversation_history[sess[r]]
               n == Len(h)
           IN  /\ n >= 4
               /\ h[n - 1] = <<"user", r>>
               /\ h[n] = <<"assistant", r>>

\* C33: language (the hint given to transcription) and selected_language (the
\* one that picks the localized replies) are equal after construction and are
\* only ever assigned together, to the same value: no operation of the session
\* makes them differ.
C33_LanguageFieldsTogether ==
    [][/\ CallSession.language = CallSession.selected_language
       /\ \A o \in Tasks :
            /\ (language'[o] # language[o]
                    \/ selected_language'[o] # selected_language[o]) =>
                    language'[o] = selected_language'[o]
            /\ language[o] = selected_language[o] =>
                    language'[o] = selected_language'[o]]_vars

\* "3" said in phase language_select: both fields are Italian
C33_Witness ==
    \E h \in Handlers :
        /\ pc[h] = "tts"
        /\ user_message[h] = Three
        /\ reply[h] = <<"option_menu", "it">>
        /\ language[sess[h]] = "it"
        /\ selected_language[sess[h]] = "it"

\* C34: from the state the constructor sets, every session stays in the phases
\* "takeaway" and "transfer" and keeps language and selected_language "nl";
\* the phase becomes "transfer" only when a completion that was awaited returns
\* a text with a transfer phrase.
C34_OnlyTaskFlowReachable ==
    [][\A o \in Tasks :
            /\ call_state'[o] \in {"takeaway", "transfer"}
            /\ language'[o] = "nl"
            /\ selected_language'[o] = "nl"
            /\ (call_state[o] # "transfer" /\ call_state'[o] = "transfer") =>
                    \E t \in Tasks :
                        /\ sess[t] = o
                        /\ pc[t] = "gen"
                        /\ response'[t] # NoText
                        /\ \E p \in transfer_phrases : Contains(p, Lower(response'[t]))]_vars

\* a call, still Dutch, has gone to "transfer" on the completion "Transfer"
C34_Witness ==
    \E h \in Handlers :
        /\ sess[h] = h
        /\ call_state[h] = "transfer"
        /\ language[h] = "nl"
        /\ selected_language[h] = "nl"
        /\ response[h] = Transfer
        /\ pc[h] \in {"xfer", "tts"}

C36_TransferOnce ==
    [][\A h \in Handlers :
            LET o == sess[h]
            IN  o # None =>
                    /\ (call_state[o] # "transfer" /\ call_state'[o] = "transfer") =>
                            transfers'[o] = transfers[o] + 1
                    /\ transfers'[o] # transfers[o] =>
                            /\ call_state[o] # "transfer"
                            /\ call_state'[o] = "transfer"
                    /\ call_state[o] = "transfer" => call_state'[o] = "transfer"
                    /\ call_state'[o] # "transfer" => transfers'[o] = 0
                    /\ transfers'[o] <= 1]_vars

\* a session that was transferred by a completion has had a later turn, and
\* initiate_transfer was invoked once
C36_Witness ==
    \E h \in Handlers :
        /\ sess[h] # None
        /\ call_state[sess[h]] = "transfer"
        /\ transfers[sess[h]] = 1
        /\ Len(conversation_history[sess[h]]) = 2
        /\ reply[h] = <<"transfer_msg", "nl">>
        /\ pc[h] = "tts"

\* C37: the step in which the handler processes "stop" issues no request, and
\* after it no transcription, completion, synthesis or transfer request is made
\* for that session by any task and no frame is sent; what is left in
\* audio_buffer stays there and is never transcribed.
C37_NothingAfterStop ==
    [][\A h \in Handlers :
            /\ (pc[h] = "recv" /\ inbox[h].event = "stop" /\ pc'[h] # "recv") =>
                    /\ pc'[h] = "done"
                    /\ calls'[h] = calls[h]
                    /\ outbox'[h] = outbox[h]
            /\ (pc[h] = "done" /\ inbox[h].event = "stop") =>
                    /\ pc'[h] = "done"
                    /\ audio_buffer'[sess[h]] = audio_buffer[sess[h]]
                    /\ transfers'[sess[h]] = transfers[sess[h]]
                    /\ \A t \in Tasks : sess[t] = sess[h] =>
                            /\ calls'[t] = calls[t]
                            /\ outbox'[t] = outbox[t]
                            /\ pc'[t] # "xfer"]_vars

\* C38: a turn that was started by process_audio_chunk ends with an empty
\* audio_buffer whatever happened in it, so whenever the handler is back at
\* receive_text the buffer holds at most 16000 bytes.
C38_BufferBounded ==
    [][\A h \in Handlers :
            /\ (ctx[h] = "media" /\ pc[h] \in {"stt", "menu", "gen", "xfer", "tts", "send"}
                    /\ pc'[h] = "recv") =>
                    audio_buffer'[sess[h]] = 0
            /\ (ctx[h] = "media" /\ pc[h] \in {"stt", "menu", "gen", "xfer", "tts", "send"}) =>
                    pc'[h] \in {"stt", "menu", "gen", "xfer", "tts", "send", "recv"}
            /\ (pc'[h] = "recv" /\ sess'[h] # None) =>
                    audio_buffer'[sess'[h]] <= 16000]_vars

\* a turn whose synthesis failed has ended with an empty buffer
C38_Witness ==
    \E h \in Handlers :
        /\ pc[h] = "recv"
        /\ inbox[h] = NoMsg
        /\ calls[h] = [stt |-> 1, gen |-> 1, tts |-> 1, send |-> 0]
        /\ audio_buffer[sess[h]] = 0
        /\ Len(conversation_history[sess[h]]) = 2

\* C39: in a turn that transfers the call, initiate_transfer comes first: while
\* the redirect request is being made the turn has no reply yet, nothing of it
\* is in conversation_history, no synthesis was asked for and no frame was
\* sent; the escalating reply or the transfer notice is returned only in a step
\* by which initiate_transfer has been invoked and, when there is a Twilio
\* client, the request has returned.
C39_RedirectBeforeReply ==
    [][\A h \in Handlers :
            LET o == sess[h]
            IN  /\ pc'[h] = "xfer" =>
                    /\ reply'[h] = NoReply
                    /\ calls'[h].tts = 0
                    /\ outbox'[h] = << >>
                    /\ conversation_history'[o] = conversation_history[o]
                    /\ transfers'[o] >= 1
                /\ (reply[h] = NoReply /\ reply'[h][1] = "escalating") =>
                    /\ transfers'[o] >= 1
                    /\ call_state'[o] = "transfer"
                    /\ twilio_client => pc[h] = "xfer"
                /\ (reply[h] = NoReply /\ reply'[h][1] = "transfer_msg"
                        /\ call_state[o] # "transfer") =>
                    /\ transfers'[o] = transfers[o] + 1
                    /\ ~twilio_client
                /\ (reply[h] = NoReply /\ reply'[h][1] = "transfer_msg"
                        /\ pc[h] = "xfer") =>
                    transfers[o] >= 1
                \* a frame is sent for the reply the turn has already returned
                /\ Len(outbox'[h]) > Len(outbox[h]) =>
                    /\ pc[h] = "tts"
                    /\ reply[h] # NoReply
                    /\ reply'[h] = reply[h]
                    /\ reply[h][1] = "escalating" => transfers[o] >= 1]_vars

\* the frame with the escalating reply has gone out after the redirect request
\* returned and the turn was recorded
C39_Witness ==
    \E h \in Handlers :
        /\ twilio_client
        /\ pc[h] = "send"
        /\ reply[h] = <<"escalating", "llm">>
        /\ transfers[sess[h]] = 1
        /\ Len(outbox[h]) = 1
        /\ Len(conversation_history[sess[h]]) = 2

\* C40: the registry holds exactly the identifiers of the calls whose
\* media-stream handler is running, one entry per running handler, so
\* len(active_sessions) is the number of live calls and no entry outlives the
\* handler or the /api/chat request that made it.
C40_RegistryIsLiveCalls ==
    LET running == {h \in Handlers : pc[h] \notin {"idle", "done"}}
        registered == {c \in CallIds : active_sessions[c] # None}
    IN  /\ registered = {sid[h] : h \in running}
        /\ Cardinality(registered) = Cardinality(running)

====
